---- MODULE Spec2Model ----
(***************************************************************************)
(* Model of the errgroup package: a group of goroutines started with Go,   *)
(* gated by a weighted semaphore, each running its task under              *)
(* backoff.Retry, with a bounded error channel and a derived context that  *)
(* is cancelled by the units (when waitAll is false) and by Wait.          *)
(***************************************************************************)
EXTENDS Integers, Sequences, FiniteSets, TLC

\* ---------------------------------------------------------------- bounds
MaxUnits == 2          \* number of Go calls the caller makes at most
MaxConc == 1           \* largest maxConcurrency passed to the constructor
MaxRetriesBound == 1   \* largest RetryOption.MaxRetries
MaxErrsBound == 1      \* largest maxErrs passed to the constructor
MaxBudget == 2         \* largest maxRetries of a backoff instance used on its own

Units == 1..MaxUnits

\* ------------------------------------------------------- program constants
\* the value NextBackOff returns to end the retry loop (backoff.Stop)
Stop == -1
\* RetryOption.Interval as the tests pass it (milliseconds)
Interval == 30
\* stands for any positive duration the library's exponential curve yields
ExpInterval == 500

\* the nil error
Nil == <<>>
\* ctx.Err() of the cancelled context, as Acquire returns it
ErrCanceled == <<0, 0>>

\* RetryMode
Zero == "Zero"
Constant == "Constant"
Exponential == "Exponential"
RetryModes == {Zero, Constant, Exponential}

\* a nil *RetryOption
NoRetry == [Mode |-> "nil", MaxRetries |-> 0]

\* the RetryOption values the caller may pass
RetryOptions == {[Mode |-> m, MaxRetries |-> r] : m \in RetryModes, r \in 0..MaxRetriesBound}

\* what one invocation of a task body may return: nil or an error
Outcomes == {"ok", "fail"}

\* the error value attempt k of unit u's task returns
TaskErr(u, k) == <<u, k>>

VARIABLES
    semaSize,    \* g.sema: 0 when nil, else the weight of the semaphore
    semaCur,     \* permits in use (semaphore.Weighted.cur)
    holding,     \* the units whose Acquire returned nil and that have not released
    waitAll,     \* g.waitAll
    retryMode,   \* g.retryMode: NoRetry or a RetryOption record
    errCap,      \* cap(g.err.errs); 0 when g.err is nil
    errs,        \* the buffered contents of g.err.errs
    ctxDone,     \* the derived context is cancelled
    parentDone,  \* the parent context is cancelled
    errOnce,     \* g.errOnce has run
    wg,          \* g.wg counter
    wrapped,     \* g.retryMode.wrapped
    pc,          \* position of each spawned unit
    attempts,    \* number of invocations of the unit's task body
    fails,       \* number of those invocations that returned an error
    remain,      \* remainRetries of the unit's backoff instance
    res,         \* what fun() returned in the unit (Nil or an error)
    callerPc,    \* position of the caller: idle, waiting, woken
    waitDone,   \* a call of Wait has returned
    crashed,     \* the process died of an unrecovered panic
    lastNext,    \* backoff instance used on its own: <<v>> when its last call
                 \* was NextBackOff returning v, <<>> after New or Reset
    granted      \* backoff instance used on its own: durations handed out
                 \* since New or the last Reset

vars == <<semaSize, semaCur, holding, waitAll, retryMode, errCap, errs, ctxDone,
          parentDone, errOnce, wg, wrapped, pc, attempts, fails, remain, res,
          callerPc, waitDone, crashed, lastNext, granted>>

\* what only the stand-alone use of a backoff instance changes
probeVars == <<lastNext, granted>>

cfgVars == <<semaSize, waitAll, retryMode, errCap>>

\* NewGroupWithContext
Init ==
    /\ semaSize \in 0..MaxConc
    /\ semaCur = 0
    /\ holding = {}
    /\ waitAll \in BOOLEAN
    /\ retryMode \in {NoRetry} \cup RetryOptions
    /\ errCap \in 0..MaxErrsBound
    /\ errs = <<>>
    /\ ctxDone = FALSE
    /\ parentDone = FALSE
    /\ errOnce = FALSE
    /\ wg = 0
    /\ wrapped = FALSE
    /\ pc = [u \in Units |-> "idle"]
    /\ attempts = [u \in Units |-> 0]
    /\ fails = [u \in Units |-> 0]
    /\ remain = [u \in Units |-> 0]
    /\ res = [u \in Units |-> Nil]
    /\ callerPc = "idle"
    /\ waitDone = FALSE
    /\ crashed = FALSE
    /\ lastNext = [u \in Units |-> <<>>]
    /\ granted = [u \in Units |-> 0]

Submitted == {u \in Units : pc[u] # "idle"}

\* ------------------------------------------------------------ backoff policy
\* zeroBackoff.NextBackOff that does not count the retry it hands out
ZeroNextBackOff_NoDecrement(r) ==
    IF r > 0 THEN {<<0, r>>} ELSE {<<Stop, r>>}

\* zeroBackoff.NextBackOff with the budget test off by one
ZeroNextBackOff_OffByOne(r) ==
    IF r >= 0 THEN {<<0, r - 1>>} ELSE {<<Stop, r>>}

\* zeroBackoff.NextBackOff: <<returned duration, remainRetries afterwards>>
ZeroNextBackOff(r) ==
    IF r > 0 THEN {<<0, r - 1>>} ELSE {<<Stop, r>>}

\* constantBackoff.NextBackOff
ConstantNextBackOff(r) ==
    IF r > 0 THEN {<<Interval, r - 1>>} ELSE {<<Stop, r>>}

\* backoff.ExponentialBackOff.NextBackOff: the next interval of the curve, or
\* Stop once the elapsed time passed MaxElapsedTime (time is not modelled, so
\* either may happen)
EbNextBackOff == {ExpInterval, Stop}

\* exponentialBackoff.NextBackOff
ExponentialNextBackOff(r) ==
    IF r > 0 THEN {<<d, r - 1>> : d \in EbNextBackOff} ELSE {<<Stop, r>>}

\* NextBackOff of the instance Go builds for the mode
NextBackOff(mode, r) ==
    CASE mode = Zero -> ZeroNextBackOff(r)
      [] mode = Constant -> ConstantNextBackOff(r)
      [] mode = Exponential -> ExponentialNextBackOff(r)

\* NewZeroBackoff, NewConstantBackoff, NewExponentialBackoff: remainRetries
NewBackoff(maxRetries) == maxRetries

\* Reset of the three strategies: remainRetries afterwards
Reset(maxRetries) == maxRetries

\* ------------------------------------------------------------ error channel
\* the send with its guard dropped
SendGuard_Always(ch) == TRUE

\* the guard of the send: len(g.err.errs)-cap(g.err.errs) > 0
SendGuard(ch) == Len(ch) - errCap > 0

\* errs <- err has to wait: the buffer is full and nobody receives before
\* Wait has handed the channel out
SendBlocks(ch) == Len(ch) >= errCap

\* the guarded send of Go: if len(errs)-cap(errs) > 0 { errs <- err }
Record(ch, err) ==
    IF SendGuard(ch) THEN Append(ch, err) ELSE ch

\* the guarded send of err goes through without waiting (it is made with
\* g.err.mu held)
SendReturns(err) ==
    (err # Nil /\ errCap > 0 /\ SendGuard(errs)) => ~SendBlocks(errs)

\* ------------------------------------------------------------------- caller
\* Go taking the permit itself, in the caller, before it starts the goroutine
Go_AcquiresInCaller ==
    /\ ~crashed
    /\ callerPc = "idle"
    /\ Cardinality(Submitted) < MaxUnits
    /\ semaSize > 0 => semaCur < semaSize
    /\ LET u == Cardinality(Submitted) + 1 IN
         pc' = [pc EXCEPT ![u] = "acquire"]
    /\ wg' = wg + 1
    /\ UNCHANGED <<cfgVars, probeVars, semaCur, holding, errs, ctxDone, parentDone, errOnce, wrapped,
                   attempts, fails, remain, res, callerPc, waitDone, crashed>>

\* Go leaving wg.Add(1) to the goroutine, which has not run it yet
Go_AddInGoroutine ==
    /\ ~crashed
    /\ callerPc = "idle"
    /\ Cardinality(Submitted) < MaxUnits
    /\ LET u == Cardinality(Submitted) + 1 IN
         pc' = [pc EXCEPT ![u] = "acquire"]
    /\ UNCHANGED <<cfgVars, probeVars, semaCur, holding, errs, ctxDone, parentDone, errOnce, wg, wrapped,
                   attempts, fails, remain, res, callerPc, waitDone, crashed>>

\* g.Go(f), the caller's part: wg.Add(1), build fun, start the goroutine
Go ==
    /\ ~crashed
    /\ callerPc = "idle"
    /\ Cardinality(Submitted) < MaxUnits
    /\ LET u == Cardinality(Submitted) + 1 IN
         pc' = [pc EXCEPT ![u] = "acquire"]
    /\ wg' = wg + 1
    /\ UNCHANGED <<cfgVars, probeVars, semaCur, holding, errs, ctxDone, parentDone, errOnce, wrapped,
                   attempts, fails, remain, res, callerPc, waitDone, crashed>>

\* g.Wait() is called: the caller blocks in g.wg.Wait()
WaitCall ==
    /\ ~crashed
    /\ callerPc = "idle"
    /\ callerPc' = "waiting"
    /\ UNCHANGED <<cfgVars, probeVars, semaCur, holding, errs, ctxDone, parentDone, errOnce, wg, wrapped,
                   pc, attempts, fails, remain, res, waitDone, crashed>>

\* g.wg.Wait() returns: the counter is zero
WaitWake ==
    /\ ~crashed
    /\ callerPc = "waiting"
    /\ wg = 0
    /\ callerPc' = "woken"
    /\ UNCHANGED <<cfgVars, probeVars, semaCur, holding, errs, ctxDone, parentDone, errOnce, wg, wrapped,
                   pc, attempts, fails, remain, res, waitDone, crashed>>

\* Wait without its call of g.cancel()
WaitReturn_NoCancel ==
    /\ ~crashed
    /\ callerPc = "woken"
    /\ waitDone' = TRUE
    /\ callerPc' = "idle"
    /\ UNCHANGED <<cfgVars, probeVars, semaCur, holding, errs, ctxDone, parentDone, errOnce, wg, wrapped,
                   pc, attempts, fails, remain, res, crashed>>

\* the rest of Wait: g.cancel() and the return of the channel
WaitReturn ==
    /\ ~crashed
    /\ callerPc = "woken"
    /\ ctxDone' = TRUE
    /\ waitDone' = TRUE
    /\ callerPc' = "idle"
    /\ UNCHANGED <<cfgVars, probeVars, semaCur, holding, errs, parentDone, errOnce, wg, wrapped,
                   pc, attempts, fails, remain, res, crashed>>

\* the host cancels the parent context: the derived context is cancelled too
CancelParent ==
    /\ ~crashed
    /\ ~parentDone
    /\ parentDone' = TRUE
    /\ ctxDone' = TRUE
    /\ UNCHANGED <<cfgVars, probeVars, semaCur, holding, errs, errOnce, wg, wrapped,
                   pc, attempts, fails, remain, res, callerPc, waitDone, crashed>>

\* ---------------------------------------------------------- spawned unit
\* g.sema.Acquire(g.ctx, 1) returns nil, or there is no semaphore
AcquireOk(u) ==
    /\ ~crashed
    /\ pc[u] = "acquire"
    /\ \/ /\ semaSize = 0
          /\ UNCHANGED <<semaCur, holding>>
       \/ /\ semaSize > 0
          /\ semaCur < semaSize
          /\ semaCur' = semaCur + 1
          /\ holding' = holding \cup {u}
    /\ pc' = [pc EXCEPT ![u] = "call"]
    /\ UNCHANGED <<cfgVars, probeVars, errs, ctxDone, parentDone, errOnce, wg, wrapped,
                   attempts, fails, remain, res, callerPc, waitDone, crashed>>

\* the failed acquisition without its return: the unit goes on to run
AcquireFail_NoReturn(u) ==
    /\ ~crashed
    /\ pc[u] = "acquire"
    /\ semaSize > 0
    /\ ctxDone
    /\ SendReturns(ErrCanceled)
    /\ errs' = IF errCap > 0 THEN Record(errs, ErrCanceled) ELSE errs
    /\ pc' = [pc EXCEPT ![u] = "call"]
    /\ UNCHANGED <<cfgVars, probeVars, semaCur, holding, ctxDone, parentDone, errOnce, wg, wrapped,
                   attempts, fails, remain, res, callerPc, waitDone, crashed>>

\* g.sema.Acquire(g.ctx, 1) returns the context's error: the guarded send,
\* then the return that leaves the goroutine before its defer is set up
AcquireFail(u) ==
    /\ ~crashed
    /\ pc[u] = "acquire"
    /\ semaSize > 0
    /\ ctxDone
    /\ SendReturns(ErrCanceled)
    /\ errs' = IF errCap > 0 THEN Record(errs, ErrCanceled) ELSE errs
    /\ pc' = [pc EXCEPT ![u] = "aborted"]
    /\ UNCHANGED <<cfgVars, probeVars, semaCur, holding, ctxDone, parentDone, errOnce, wg, wrapped,
                   attempts, fails, remain, res, callerPc, waitDone, crashed>>

\* fun() is called: a nil func when there is no retry option (the goroutine
\* panics and runs its defer), else the closure of Go, which builds the
\* backoff instance and enters backoff.Retry (which resets it)
CallFun(u) ==
    /\ ~crashed
    /\ pc[u] = "call"
    /\ IF retryMode = NoRetry
         THEN /\ pc' = [pc EXCEPT ![u] = "panicDefer"]
              /\ UNCHANGED remain
         ELSE /\ pc' = [pc EXCEPT ![u] = "attempt"]
              /\ remain' = [remain EXCEPT ![u] = Reset(NewBackoff(retryMode.MaxRetries))]
    /\ UNCHANGED <<cfgVars, probeVars, semaCur, holding, errs, ctxDone, parentDone, errOnce, wg, wrapped,
                   attempts, fails, res, callerPc, waitDone, crashed>>

\* the loop of backoff.Retry going round again after a success while the
\* budget lasts
Attempt_NoStopOnSuccess(u) ==
    /\ ~crashed
    /\ pc[u] = "attempt"
    /\ \E out \in Outcomes : LET k == attempts[u] + 1 IN
         /\ attempts' = [attempts EXCEPT ![u] = k]
         /\ IF out = "ok"
              THEN /\ res' = [res EXCEPT ![u] = Nil]
                   /\ IF remain[u] > 0
                        THEN /\ remain' = [remain EXCEPT ![u] = remain[u] - 1]
                             /\ UNCHANGED pc
                        ELSE /\ pc' = [pc EXCEPT ![u] = "wrap"]
                             /\ UNCHANGED remain
                   /\ UNCHANGED fails
              ELSE \E nb \in NextBackOff(retryMode.Mode, remain[u]) :
                   /\ fails' = [fails EXCEPT ![u] = fails[u] + 1]
                   /\ remain' = [remain EXCEPT ![u] = nb[2]]
                   /\ IF nb[1] = Stop
                        THEN /\ res' = [res EXCEPT ![u] = TaskErr(u, k)]
                             /\ pc' = [pc EXCEPT ![u] = "wrap"]
                        ELSE UNCHANGED <<res, pc>>
    /\ UNCHANGED <<cfgVars, probeVars, semaCur, holding, errs, ctxDone, parentDone, errOnce, wg,
                   wrapped, callerPc, waitDone, crashed>>

\* the retry loop giving its permit back while it sleeps between attempts
Attempt_ReleasesWhileSleeping(u) ==
    /\ ~crashed
    /\ pc[u] = "attempt"
    /\ \E out \in Outcomes : LET k == attempts[u] + 1 IN
         /\ attempts' = [attempts EXCEPT ![u] = k]
         /\ IF out = "ok"
              THEN /\ res' = [res EXCEPT ![u] = Nil]
                   /\ pc' = [pc EXCEPT ![u] = "wrap"]
                   /\ UNCHANGED <<remain, fails, semaCur, holding>>
              ELSE \E nb \in NextBackOff(retryMode.Mode, remain[u]) :
                   /\ fails' = [fails EXCEPT ![u] = fails[u] + 1]
                   /\ remain' = [remain EXCEPT ![u] = nb[2]]
                   /\ IF nb[1] = Stop
                        THEN /\ res' = [res EXCEPT ![u] = TaskErr(u, k)]
                             /\ pc' = [pc EXCEPT ![u] = "wrap"]
                             /\ UNCHANGED <<semaCur, holding>>
                        ELSE /\ semaCur' = IF u \in holding THEN semaCur - 1 ELSE semaCur
                             /\ holding' = holding \ {u}
                             /\ UNCHANGED <<res, pc>>
    /\ UNCHANGED <<cfgVars, probeVars, errs, ctxDone, parentDone, errOnce, wg,
                   wrapped, callerPc, waitDone, crashed>>

\* one round of the loop of backoff.Retry: invoke the task; on success return
\* nil; on failure ask NextBackOff and either return the error (Stop) or
\* sleep and go round again.
Attempt(u) ==
    /\ ~crashed
    /\ pc[u] = "attempt"
    /\ \E out \in Outcomes : LET k == attempts[u] + 1 IN
         /\ attempts' = [attempts EXCEPT ![u] = k]
         /\ IF out = "ok"
              THEN /\ res' = [res EXCEPT ![u] = Nil]
                   /\ pc' = [pc EXCEPT ![u] = "wrap"]
                   /\ UNCHANGED <<remain, fails>>
              ELSE \E nb \in NextBackOff(retryMode.Mode, remain[u]) :
                   /\ fails' = [fails EXCEPT ![u] = fails[u] + 1]
                   /\ remain' = [remain EXCEPT ![u] = nb[2]]
                   /\ IF nb[1] = Stop
                        THEN /\ res' = [res EXCEPT ![u] = TaskErr(u, k)]
                             /\ pc' = [pc EXCEPT ![u] = "wrap"]
                        ELSE UNCHANGED <<res, pc>>
    /\ UNCHANGED <<cfgVars, probeVars, semaCur, holding, errs, ctxDone, parentDone, errOnce, wg,
                   wrapped, callerPc, waitDone, crashed>>

\* the closure's defer, run as fun returns: g.retryMode.wrapped = true, a
\* plain write with no lock held. The backoff instance and the loop of
\* backoff.Retry were local to the call of fun.
SetWrapped(u) ==
    /\ ~crashed
    /\ pc[u] = "wrap"
    /\ wrapped' = TRUE
    /\ pc' = [pc EXCEPT ![u] = "record"]
    /\ attempts' = [attempts EXCEPT ![u] = 0]
    /\ fails' = [fails EXCEPT ![u] = 0]
    /\ remain' = [remain EXCEPT ![u] = 0]
    /\ UNCHANGED <<cfgVars, probeVars, semaCur, holding, errs, ctxDone, parentDone, errOnce, wg,
                   res, callerPc, waitDone, crashed>>

\* if err := fun(); err != nil: the guarded send under the mutex
RecordErr(u) ==
    /\ ~crashed
    /\ pc[u] = "record"
    /\ SendReturns(res[u])
    /\ errs' = IF res[u] # Nil /\ errCap > 0 THEN Record(errs, res[u]) ELSE errs
    /\ pc' = [pc EXCEPT ![u] = "once"]
    /\ UNCHANGED <<cfgVars, probeVars, semaCur, holding, ctxDone, parentDone, errOnce, wg, wrapped,
                   attempts, fails, remain, res, callerPc, waitDone, crashed>>

\* the unit's cancellation with the test of waitAll dropped
OnceCancel_AnyMode(u) ==
    /\ ~crashed
    /\ pc[u] = "once"
    /\ IF ~errOnce
         THEN /\ errOnce' = TRUE
              /\ ctxDone' = TRUE
         ELSE UNCHANGED <<errOnce, ctxDone>>
    /\ pc' = [pc EXCEPT ![u] = "defer"]
    /\ UNCHANGED <<cfgVars, probeVars, semaCur, holding, errs, parentDone, wg, wrapped,
                   attempts, fails, remain, res, callerPc, waitDone, crashed>>

\* the unit's cancellation with the test of waitAll inverted
OnceCancel_Inverted(u) ==
    /\ ~crashed
    /\ pc[u] = "once"
    /\ IF waitAll /\ ~errOnce
         THEN /\ errOnce' = TRUE
              /\ ctxDone' = TRUE
         ELSE UNCHANGED <<errOnce, ctxDone>>
    /\ pc' = [pc EXCEPT ![u] = "defer"]
    /\ UNCHANGED <<cfgVars, probeVars, semaCur, holding, errs, parentDone, wg, wrapped,
                   attempts, fails, remain, res, callerPc, waitDone, crashed>>

\* if !g.waitAll { g.errOnce.Do(g.cancel) }
OnceCancel(u) ==
    /\ ~crashed
    /\ pc[u] = "once"
    /\ IF ~waitAll /\ ~errOnce
         THEN /\ errOnce' = TRUE
              /\ ctxDone' = TRUE
         ELSE UNCHANGED <<errOnce, ctxDone>>
    /\ pc' = [pc EXCEPT ![u] = "defer"]
    /\ UNCHANGED <<cfgVars, probeVars, semaCur, holding, errs, parentDone, wg, wrapped,
                   attempts, fails, remain, res, callerPc, waitDone, crashed>>

\* the goroutine's defer without its g.sema.Release(1)
Deferred_NoRelease(u) ==
    /\ ~crashed
    /\ pc[u] \in {"defer", "panicDefer"}
    /\ wg' = wg - 1
    /\ pc' = [pc EXCEPT ![u] = IF pc[u] = "defer" THEN "exited" ELSE "panicked"]
    /\ UNCHANGED <<cfgVars, probeVars, semaCur, holding, errs, ctxDone, parentDone, errOnce, wrapped,
                   attempts, fails, remain, res, callerPc, waitDone, crashed>>

\* the goroutine's defer: g.sema.Release(1) if there is a semaphore, g.wg.Done()
Deferred(u) ==
    /\ ~crashed
    /\ pc[u] \in {"defer", "panicDefer"}
    /\ semaCur' = IF semaSize > 0 THEN semaCur - 1 ELSE semaCur
    /\ holding' = IF semaSize > 0 THEN holding \ {u} ELSE holding
    /\ wg' = wg - 1
    /\ pc' = [pc EXCEPT ![u] = IF pc[u] = "defer" THEN "exited" ELSE "panicked"]
    /\ UNCHANGED <<cfgVars, probeVars, errs, ctxDone, parentDone, errOnce, wrapped,
                   attempts, fails, remain, res, callerPc, waitDone, crashed>>

\* a panic nobody recovers ends the process
Crash(u) ==
    /\ ~crashed
    /\ pc[u] = "panicked"
    /\ crashed' = TRUE
    /\ UNCHANGED <<cfgVars, probeVars, semaCur, holding, errs, ctxDone, parentDone, errOnce, wg, wrapped,
                   pc, attempts, fails, remain, res, callerPc, waitDone>>

UnitStep(u) ==
    \/ AcquireOk(u)
    \/ AcquireFail(u)
    \/ CallFun(u)
    \/ Attempt(u)
    \/ SetWrapped(u)
    \/ RecordErr(u)
    \/ OnceCancel(u)
    \/ Deferred(u)
    \/ Crash(u)

Next ==
    \/ Go
    \/ WaitCall
    \/ WaitWake
    \/ WaitReturn
    \/ CancelParent
    \/ \E u \in Units : UnitStep(u)

Spec == Init /\ [][Next]_vars

\* the scheduler runs every goroutine that can take a step, the caller's
\* Wait included; it does not make the host call Go, Wait or cancel
FairSpec ==
    /\ Spec
    /\ \A u \in Units : WF_vars(UnitStep(u))
    /\ WF_vars(WaitWake)
    /\ WF_vars(WaitReturn)

\* ------------------------------------------- a backoff instance on its own
\* what the group's operations change and a backoff instance does not
groupVars == <<semaSize, semaCur, holding, waitAll, errCap, errs, ctxDone,
               parentDone, errOnce, wg, wrapped, pc, attempts, fails, res,
               callerPc, waitDone, crashed>>

\* NewZeroBackoff, NewConstantBackoff or NewExponentialBackoff(maxRetries),
\* one instance per unit, no group operation running
BackoffInit ==
    /\ retryMode \in {[Mode |-> m, MaxRetries |-> r] : m \in RetryModes, r \in 0..MaxBudget}
    /\ remain = [u \in Units |-> NewBackoff(retryMode.MaxRetries)]
    /\ lastNext = [u \in Units |-> <<>>]
    /\ granted = [u \in Units |-> 0]
    /\ semaSize = 0
    /\ semaCur = 0
    /\ holding = {}
    /\ waitAll = TRUE
    /\ errCap = 0
    /\ errs = <<>>
    /\ ctxDone = FALSE
    /\ parentDone = FALSE
    /\ errOnce = FALSE
    /\ wg = 0
    /\ wrapped = FALSE
    /\ pc = [u \in Units |-> "idle"]
    /\ attempts = [u \in Units |-> 0]
    /\ fails = [u \in Units |-> 0]
    /\ res = [u \in Units |-> Nil]
    /\ callerPc = "idle"
    /\ waitDone = FALSE
    /\ crashed = FALSE

\* a call of NextBackOff on unit u's instance
BackoffNext(u) ==
    /\ \E nb \in NextBackOff(retryMode.Mode, remain[u]) :
         /\ remain' = [remain EXCEPT ![u] = nb[2]]
         /\ lastNext' = [lastNext EXCEPT ![u] = <<nb[1]>>]
         /\ granted' = [granted EXCEPT ![u] = IF nb[1] = Stop THEN @ ELSE @ + 1]
    /\ UNCHANGED <<groupVars, retryMode>>

\* a call of Reset on unit u's instance
BackoffReset(u) ==
    /\ remain' = [remain EXCEPT ![u] = Reset(retryMode.MaxRetries)]
    /\ lastNext' = [lastNext EXCEPT ![u] = <<>>]
    /\ granted' = [granted EXCEPT ![u] = 0]
    /\ UNCHANGED <<groupVars, retryMode>>

BackoffStep ==
    \/ \E u \in Units : BackoffNext(u)
    \/ \E u \in Units : BackoffReset(u)

BackoffSpec == BackoffInit /\ [][BackoffStep]_vars

TypeOK ==
    /\ semaSize \in 0..MaxConc
    /\ semaCur \in 0..MaxConc
    /\ wg \in 0..MaxUnits
    /\ callerPc \in {"idle", "waiting", "woken"}
    /\ \A u \in Units : pc[u] \in {"idle", "acquire", "aborted", "call", "attempt",
                                   "wrap", "record", "once", "defer", "panicDefer",
                                   "panicked", "exited"}

\* ------------------------------------------------------------------ claims
\* units that left their goroutine, by whichever path
Gone == {u \in Units : pc[u] \in {"aborted", "exited", "panicked"}}

\* units whose task ultimately failed: fun() returned an error
Failed == {u \in Units : res[u] # Nil}

\* units inside backoff.Retry: running the task body or sleeping between attempts
Executing == {u \in Units : pc[u] = "attempt"}

Min(a, b) == IF a < b THEN a ELSE b

\* C1: every Go is matched by exactly one wg.Done on every exit path, so once
\* all submitted units have left their goroutine the pending counter is 0
C1_PendingMatched ==
    (Submitted # {} /\ Submitted = Gone) => wg = 0

\* C2: a call of Wait eventually returns (every task body terminates), also
\* when the context was cancelled while units waited for a permit
C2_WaitReturns ==
    (callerPc = "waiting" /\ retryMode # NoRetry) ~> (callerPc = "idle")

\* C3: with capacity N > 0 and M failed tasks, the channel Wait returned holds
\* exactly min(M, N) failures
C3_BoundedBuffer ==
    (errCap > 0 /\ waitDone /\ callerPc = "idle"
       /\ \A u \in Submitted : pc[u] = "exited")
    => Len(errs) = Min(Cardinality(Failed), errCap)

\* C4: in fail-fast mode (waitAll false) the context is cancelled before Wait
\* returns when a task failed (already when wg.Wait() comes back), and at the
\* latest when Wait returns when none failed
C4_FailFastFired ==
    ~waitAll => /\ (callerPc = "woken" /\ Failed # {}) => ctxDone
                /\ waitDone => ctxDone

C4_Witness ==
    /\ ~waitAll
    /\ ~parentDone
    /\ ~waitDone
    /\ callerPc = "woken"
    /\ Failed # {}
    /\ ctxDone

\* C5: in fail-fast mode only a unit whose task failed cancels the context: while
\* no task has failed, the parent is not cancelled and Wait has not returned,
\* the context is not cancelled
C5_CancelOnlyOnFailure ==
    (~waitAll /\ ~parentDone /\ ~waitDone /\ Failed = {}) => ~ctxDone

\* C6: in run-to-completion mode (waitAll true) with the parent never cancelled,
\* the only step that cancels the context is Wait's, taken when the pending
\* counter is zero and every submitted unit has finished
C6_RunToCompletion ==
    [][(waitAll /\ ~parentDone' /\ ~ctxDone /\ ctxDone')
         => (callerPc = "woken" /\ wg = 0
               /\ \A u \in Submitted : pc[u] \in {"exited", "panicked"})]_vars

C6_Witness ==
    /\ waitAll
    /\ ~parentDone
    /\ ~ctxDone
    /\ \E u \in Units : pc[u] = "exited" /\ res[u] # Nil
    /\ \E u \in Units : pc[u] = "attempt"

\* C7: with a semaphore of weight c > 0 at most c units are inside their task
\* (its retry attempts included) at the same time
C7_AdmissionBound ==
    semaSize > 0 => Cardinality(Executing) <= semaSize

C7_Witness ==
    /\ semaSize > 0
    /\ Cardinality(Executing) = semaSize
    /\ \E u \in Units : pc[u] = "acquire"

\* C8 as stated: a task whose every attempt fails is attempted exactly
\* MaxRetries + 1 times and fun() returns the error of the last attempt
C8_RetryBudget ==
    \A u \in Units :
        (pc[u] = "wrap" /\ res[u] # Nil)
        => /\ attempts[u] = retryMode.MaxRetries + 1
           /\ res[u] = TaskErr(u, attempts[u])

\* C8 amended: fun() returns the error of the last attempt after at most
\* MaxRetries + 1 attempts, and after exactly MaxRetries + 1 in the Zero and
\* Constant modes, for each unit whatever the other units do
C8_RetryBudgetAmended ==
    \A u \in Units :
        (pc[u] = "wrap" /\ res[u] # Nil)
        => /\ res[u] = TaskErr(u, attempts[u])
           /\ attempts[u] <= retryMode.MaxRetries + 1
           /\ retryMode.Mode \in {Zero, Constant}
                => attempts[u] = retryMode.MaxRetries + 1

C8_Witness ==
    /\ retryMode.Mode = Zero
    /\ retryMode.MaxRetries >= 1
    /\ \E u \in Units :
          /\ pc[u] = "wrap"
          /\ res[u] # Nil
          /\ attempts[u] = retryMode.MaxRetries + 1
          /\ \E v \in Units \ {u} : pc[v] = "attempt" /\ attempts[v] >= 1

\* C9: without a retry option every admitted task body is invoked exactly once
C9_RunsOnceWithoutRetry ==
    \A u \in Units :
        (retryMode = NoRetry /\ pc[u] \in {"wrap", "panicDefer"})
        => attempts[u] = 1

\* C10: in every state after a call of Wait has returned the derived context
\* is cancelled, in both modes and whether or not a task failed
C10_WaitFiresSignal ==
    waitDone => ctxDone

C10_Witness ==
    /\ waitDone
    /\ waitAll
    /\ ~parentDone
    /\ Failed = {}
    /\ \E u \in Units : pc[u] = "exited"
    /\ ctxDone

\* C11: a unit whose acquisition was cancelled never runs its task, and the
\* admission-cancelled failure is in the collector unless the collector was full
C11_AdmissionCancelledRecorded ==
    \A u \in Units :
        pc[u] = "aborted"
        => /\ attempts[u] = 0
           /\ errCap > 0
                => (Len(errs) = errCap \/ \E i \in 1..Len(errs) : errs[i] = ErrCanceled)

\* C12: Go never blocks its caller: whenever the caller is not inside Wait it
\* can complete a Go, whatever the permits, the collector and the units do
C12_GoNeverBlocks ==
    (~crashed /\ callerPc = "idle" /\ Cardinality(Submitted) < MaxUnits)
    => ENABLED Go

C12_Witness ==
    /\ semaSize > 0
    /\ semaCur = semaSize
    /\ \E u \in Units : pc[u] = "attempt"
    /\ \E u \in Units : pc[u] = "acquire"
    /\ callerPc = "idle"

\* C13: no two units are at an unsynchronized write of shared state at the same
\* time: at most one unit is at the write of g.retryMode.wrapped
C13_NoUnsynchronizedWrites ==
    Cardinality({u \in Units : pc[u] = "wrap"}) <= 1

\* C14: when wg.Wait() comes back in Wait, no submitted unit has a write to the
\* collector ahead of it: each is past its guarded send
C14_NoWriteAfterWait ==
    callerPc = "woken"
    => \A u \in Submitted : pc[u] \in {"once", "defer", "exited", "panicked"}

C14_Witness ==
    /\ callerPc = "woken"
    /\ errCap > 0
    /\ \E u \in Units : pc[u] = "exited" /\ res[u] # Nil

\* C15: the collector never holds more than its capacity, a unit at its guarded
\* send is never made to wait there, and a send attempt on a collector at
\* capacity leaves it as it was
C15_BoundedNonBlocking ==
    /\ Len(errs) <= errCap
    /\ \A u \in Units :
         /\ pc[u] = "record" => SendReturns(res[u])
         /\ (pc[u] = "acquire" /\ semaSize > 0 /\ ctxDone) => SendReturns(ErrCanceled)
         /\ Len(errs) >= errCap
              => (Record(errs, res[u]) = errs /\ Record(errs, ErrCanceled) = errs)

C15_Witness ==
    /\ errCap > 0
    /\ Len(errs) <= errCap
    /\ \E u \in Units : pc[u] = "record" /\ res[u] # Nil
    /\ \E u \in Units : pc[u] \in {"once", "defer", "exited"} /\ res[u] # Nil

\* errors of unit u's task that are in the collector
RecordedOf(u) == {i \in 1..Len(errs) : errs[i] # ErrCanceled /\ errs[i][1] = u}

\* C16 as stated: a task that fails j <= MaxRetries attempts and then succeeds
\* is invoked j + 1 times and ends in success with nothing recorded, so fun
\* returns an error only after more than MaxRetries failed attempts
C16_StopsAtFirstSuccess ==
    \A u \in Units :
        /\ (pc[u] = "wrap" /\ res[u] = Nil)
             => (attempts[u] = fails[u] + 1 /\ fails[u] <= retryMode.MaxRetries)
        /\ (pc[u] = "wrap" /\ res[u] # Nil) => fails[u] > retryMode.MaxRetries
        /\ (pc[u] \in {"wrap", "record", "once", "defer", "exited"} /\ res[u] = Nil)
             => RecordedOf(u) = {}

\* C16 amended: the first successful attempt ends the retry loop (j failures,
\* j + 1 invocations, success, nothing recorded); in the Zero and Constant
\* modes the loop gives up only after MaxRetries + 1 failures
C16_StopsAtFirstSuccessAmended ==
    \A u \in Units :
        /\ (pc[u] = "wrap" /\ res[u] = Nil)
             => (attempts[u] = fails[u] + 1 /\ fails[u] <= retryMode.MaxRetries)
        /\ (pc[u] = "wrap" /\ res[u] # Nil /\ retryMode.Mode \in {Zero, Constant})
             => fails[u] > retryMode.MaxRetries
        /\ (pc[u] \in {"wrap", "record", "once", "defer", "exited"} /\ res[u] = Nil)
             => RecordedOf(u) = {}

C16_Witness ==
    \E u \in Units :
        /\ retryMode.Mode = Constant
        /\ pc[u] = "wrap"
        /\ res[u] = Nil
        /\ fails[u] = 1
        /\ attempts[u] = 2

\* units between a successful acquisition and the return of fun
InRetry == {u \in Units : pc[u] \in {"call", "attempt", "wrap"}}

\* C18: with a semaphore, a unit holds its permit all the way from its
\* acquisition to the return of fun, sleeps between attempts included, so at
\* most c units are inside a retry sequence
C18_PermitKeptWhileRetrying ==
    semaSize > 0 => (InRetry \subseteq holding /\ Cardinality(InRetry) <= semaSize)

C18_Witness ==
    /\ semaSize > 0
    /\ \E u \in Units : pc[u] = "attempt" /\ fails[u] >= 1 /\ u \in holding
    /\ \E u \in Units : pc[u] = "acquire"

\* units between a successful acquisition and the release in their defer
Admitted ==
    {u \in Units : pc[u] \in {"call", "attempt", "wrap", "record", "once",
                               "defer", "panicDefer"}}

\* C20: the permits in use are exactly those of the units between acquisition
\* and release; a unit whose acquisition was cancelled holds and releases
\* none; once all units have exited no permit is in use
C20_PermitAccounting ==
    /\ semaCur = Cardinality(holding)
    /\ semaCur >= 0
    /\ semaCur <= semaSize
    /\ holding = IF semaSize > 0 THEN Admitted ELSE {}
    /\ Submitted = Gone => semaCur = 0

C20_Witness ==
    /\ semaSize > 0
    /\ semaCur = 0
    /\ \E u \in Units : pc[u] = "aborted"
    /\ \E u \in Units : pc[u] = "exited"

\* C17: for each strategy built with maxRetries = m: 0 <= remainRetries <= m
\* always, at most m durations are handed out after New or a Reset (none when
\* m = 0); a NextBackOff with remainRetries = 0 returns Stop and otherwise
\* takes exactly one off remainRetries; Reset puts remainRetries back to m
C17_AttemptBudget ==
    /\ [](\A u \in Units :
            /\ remain[u] >= 0
            /\ remain[u] <= retryMode.MaxRetries
            /\ granted[u] + remain[u] <= retryMode.MaxRetries)
    /\ [][\A u \in Units :
            <<remain[u], lastNext[u], granted[u]>>
               # <<remain'[u], lastNext'[u], granted'[u]>>
            => IF lastNext'[u] = <<>>
                 THEN remain'[u] = retryMode.MaxRetries /\ granted'[u] = 0
                 ELSE IF remain[u] = 0
                        THEN lastNext'[u] = <<Stop>> /\ remain'[u] = 0
                        ELSE remain'[u] = remain[u] - 1]_vars

C17_Witness ==
    \E u \in Units :
        /\ retryMode.MaxRetries >= 2
        /\ remain[u] = 0
        /\ granted[u] = retryMode.MaxRetries
        /\ lastNext[u] = <<Stop>>
        /\ \E v \in Units \ {u} : remain[v] = retryMode.MaxRetries /\ lastNext[v] = <<>>

====
